---- MODULE Spec2Model ----
(***************************************************************************)
(* A model of the mini-lsm engine of src/src/lib.rs: one Lsm handle, its  *)
(* memtable, its table list, and the three kinds of file it reads and      *)
(* writes (the WAL ".log", the manifest, the SSTables).                    *)
(*                                                                         *)
(* Files are sequences of cells; one cell stands for one encoded scalar    *)
(* (bincode writes the fields of a struct one after the other with no      *)
(* framing, and a Vec as its length followed by its elements).  Keys and   *)
(* values are small naturals (K = V = an integer type).  A file that does  *)
(* not exist is NoFile.                                                    *)
(*                                                                         *)
(* put is modelled step by step: every file operation of put is one step,  *)
(* so that the order of the operations is visible and a failure or a       *)
(* restart can fall between two of them.                                   *)
(***************************************************************************)
EXTENDS Integers, Sequences, FiniteSets, TLC

\* ------------------------------------------------------------------ bounds
\* keys are 1..MaxKey and values 1..MaxVal; a run makes at most MaxPuts calls
\* of put and injected events together, has at most MaxOpens engine lifetimes
\* and at most MaxFaults injected events; a damaged cell takes a value in
\* 0..MaxCell
MaxKey == 3
MaxVal == 2
MaxPuts == 5
MaxOpens == 2
MaxFaults == 1
MaxCell == 2

\* Lsm::new sets max_size: 2
max_size == 2

Keys == 1..MaxKey
Values == 1..MaxVal
Cells == 0..MaxCell

VARIABLES
    status,        \* "open": an Lsm handle exists; "down": the process is gone
    memtable,      \* Lsm.memtable: a function from the keys it holds to values
    tables,        \* Lsm.tables: the names of the SSTables, oldest first
    walFile,       \* content of ".log" as the file system shows it
    manifestFile,  \* content of the manifest file
    sstFiles,      \* name -> content, for the SSTable files that exist
    disk,          \* what of the three has reached stable storage
    pc,            \* position inside put: "idle" when no put is running
    key, value,    \* the arguments of the running put
    dump, name,    \* put's locals of the flush branch
    lastRet,       \* what the last call returned to its caller ("running": a put is under way)
    acked,         \* history: key -> value of its last put that returned Ok (0: none)
    issued,        \* history: the keys put was ever called with
    lastFlush,     \* history: name and entries of the last completed flush
    unflushed,     \* history: key -> value of the puts that returned Ok since then
    pre,           \* history: memtable, table list and log when the last put began
    maybe,         \* history: key -> values of its puts cut off by a crash after their
                   \* log append, since the key's last put that returned Ok
    putCount,      \* history: key -> the number of its puts that returned Ok
    nput,          \* the number of calls of put so far
    nopen,         \* the number of engine lifetimes so far
    nfault         \* the number of failures, damages and write-backs injected so far

vars == << status, memtable, tables, walFile, manifestFile, sstFiles, disk, pc,
           key, value, dump, name, lastRet, acked, issued, lastFlush, unflushed,
           pre, maybe, putCount, nput, nopen, nfault >>

NoFile == << -1 >>
EmptyMap == [x \in {} |-> 0]

\* ------------------------------------------------------------------ BTreeMap
Insert(m, k, v) == [x \in (DOMAIN m) \cup {k} |-> IF x = k THEN v ELSE m[x]]
Remove(m, k) == [x \in (DOMAIN m) \ {k} |-> m[x]]
MapLen(m) == Cardinality(DOMAIN m)
MinKey(S) == CHOOSE x \in S : \A y \in S : x <= y

\* mutant: the pairs are collected in descending key order
RECURSIVE IntoIterDescending(_)
IntoIterDescending(m) ==
    IF DOMAIN m = {} THEN << >>
    ELSE LET k == CHOOSE x \in DOMAIN m : \A y \in DOMAIN m : y <= x
         IN  << <<k, m[k]>> >> \o IntoIterDescending(Remove(m, k))

\* BTreeMap::into_iter().collect(): the pairs in ascending key order
RECURSIVE IntoIter(_)
IntoIter(m) ==
    IF DOMAIN m = {} THEN << >>
    ELSE LET k == MinKey(DOMAIN m)
         IN  << <<k, m[k]>> >> \o IntoIter(Remove(m, k))

\* ------------------------------------------------------------------ codec
\* bincode of Vec<(K, V)> (and of Sst { entries }): the length, then the pairs
RECURSIVE EncodePairs(_)
EncodePairs(d) ==
    IF d = << >> THEN << >>
    ELSE << d[1][1], d[1][2] >> \o EncodePairs(Tail(d))

EncodeSst(d) == << Len(d) >> \o EncodePairs(d)

\* decode_from_reader::<Sst<K, V>>: fails when the input ends early; bytes after
\* the structure are not read
DecodeSst(bytes) ==
    IF Len(bytes) >= 1 /\ Len(bytes) >= 1 + 2 * bytes[1]
    THEN [ok |-> TRUE,
          entries |-> [i \in 1..bytes[1] |-> << bytes[2 * i], bytes[2 * i + 1] >>]]
    ELSE [ok |-> FALSE, entries |-> << >>]

\* bincode of Vec<String>: the length, then the names
EncodeManifest(t) == << Len(t) >> \o t

\* decode_from_slice::<Vec<String>>
DecodeManifest(bytes) ==
    IF Len(bytes) >= 1 /\ Len(bytes) >= 1 + bytes[1]
    THEN [ok |-> TRUE, names |-> SubSeq(bytes, 2, 1 + bytes[1])]
    ELSE [ok |-> FALSE, names |-> << >>]

\* DefaultHasher over one scalar, folded to the model's cell range
compute_hash(x) == (3 * x + 1) % 8

\* crc32 over the tombstone byte, the key's hash and the value's hash
compute_crc(tomb, k, v) == tomb + 2 * compute_hash(k) + 16 * compute_hash(v)

\* new_wal_entry followed by encode_to_vec: crc, is_tombstone, key, value
new_wal_entry(tomb, k, v) == << compute_crc(tomb, k, v), tomb, k, v >>

\* ------------------------------------------------------------------ recovery
\* mutant: a record that fails to decode makes the whole replay fail, and the
\* caller falls back to an empty memtable
RECURSIVE ReplayAllOrNothing(_, _)
ReplayAllOrNothing(bytes, m) ==
    IF Len(bytes) = 0 THEN m
    ELSE IF Len(bytes) < 4 \/ bytes[2] \notin {0, 1} THEN EmptyMap
    ELSE LET rest == SubSeq(bytes, 5, Len(bytes))
         IN  IF bytes[1] = compute_crc(bytes[2], bytes[3], bytes[4])
             THEN IF bytes[2] = 1
                  THEN ReplayAllOrNothing(rest, Remove(m, bytes[3]))
                  ELSE ReplayAllOrNothing(rest, Insert(m, bytes[3], bytes[4]))
             ELSE ReplayAllOrNothing(rest, m)

\* The replay loop of try_log_recovery over the content of the log
RECURSIVE Replay(_, _)
Replay(bytes, m) ==
    IF Len(bytes) < 4 \/ bytes[2] \notin {0, 1}
    THEN m
    ELSE LET rest == SubSeq(bytes, 5, Len(bytes))
         IN  IF bytes[1] = compute_crc(bytes[2], bytes[3], bytes[4])
             THEN IF bytes[2] = 1
                  THEN Replay(rest, Remove(m, bytes[3]))
                  ELSE Replay(rest, Insert(m, bytes[3], bytes[4]))
             ELSE Replay(rest, m)

\* mutant: the log is looked for under a path that is never a file
try_log_recovery_no_file(log) == EmptyMap

\* try_log_recovery(..).unwrap_or(BTreeMap::new())
try_log_recovery(log) == IF log = NoFile THEN EmptyMap ELSE Replay(log, EmptyMap)

\* ------------------------------------------------------------------ get
\* mutant: the insertion point of a failed search is taken for a match
RECURSIVE BinarySearchInsertionPoint(_, _, _, _)
BinarySearchInsertionPoint(entries, k, lo, hi) ==
    IF lo >= hi THEN (IF lo < Len(entries) THEN lo + 1 ELSE 0)
    ELSE LET mid == lo + (hi - lo) \div 2
         IN  IF entries[mid + 1][1] = k THEN mid + 1
             ELSE IF entries[mid + 1][1] < k
                  THEN BinarySearchInsertionPoint(entries, k, mid + 1, hi)
                  ELSE BinarySearchInsertionPoint(entries, k, lo, mid)

\* slice::binary_search_by_key over the entries: the index found, or 0
RECURSIVE BinarySearch(_, _, _, _)
BinarySearch(entries, k, lo, hi) ==
    IF lo >= hi THEN 0
    ELSE LET mid == lo + (hi - lo) \div 2
         IN  IF entries[mid + 1][1] = k THEN mid + 1
             ELSE IF entries[mid + 1][1] < k
                  THEN BinarySearch(entries, k, mid + 1, hi)
                  ELSE BinarySearch(entries, k, lo, mid)

None == [kind |-> "none", val |-> 0]
Some(v) == [kind |-> "some", val |-> v]
Panic == [kind |-> "panic", val |-> 0]

\* mutant: the tables are scanned from the oldest to the newest
RECURSIVE ScanUp(_, _, _, _)
ScanUp(t, files, k, j) ==
    IF j > Len(t) THEN None
    ELSE IF t[j] \notin DOMAIN files THEN Panic
    ELSE LET sst == DecodeSst(files[t[j]])
         IN  IF ~sst.ok THEN Panic
             ELSE LET index == BinarySearch(sst.entries, k, 0, Len(sst.entries))
                  IN  IF index # 0 THEN Some(sst.entries[index][2])
                      ELSE ScanUp(t, files, k, j + 1)

ScanTablesOldestFirst(t, files, k, i) == ScanUp(t, files, k, 1)

\* the loop over self.tables.iter().rev(), from index i down to 1
RECURSIVE ScanTables(_, _, _, _)
ScanTables(t, files, k, i) ==
    IF i = 0 THEN None
    ELSE IF t[i] \notin DOMAIN files THEN Panic
    ELSE LET sst == DecodeSst(files[t[i]])
         IN  IF ~sst.ok THEN Panic
             ELSE LET index == BinarySearch(sst.entries, k, 0, Len(sst.entries))
                  IN  IF index # 0 THEN Some(sst.entries[index][2])
                      ELSE ScanTables(t, files, k, i - 1)

\* the tables alone, newest first
GetFromTables(k) == ScanTables(tables, sstFiles, k, Len(tables))

\* mutant: the tables are searched before the memtable
GetTablesFirst(k) ==
    IF GetFromTables(k).kind # "none" THEN GetFromTables(k)
    ELSE IF k \in DOMAIN memtable THEN Some(memtable[k]) ELSE None

\* Lsm::get
Get(k) ==
    IF k \in DOMAIN memtable THEN Some(memtable[k])
    ELSE GetFromTables(k)

\* ------------------------------------------------------------------ files
\* OpenOptions write+create without truncate, then write_all from offset 0
Overwrite(old, new) ==
    IF old = NoFile THEN new
    ELSE new \o SubSeq(old, Len(new) + 1, Len(old))

SstContent(n) == IF n \in DOMAIN sstFiles THEN sstFiles[n] ELSE NoFile

\* mutant: the name does not depend on the number of tables
TableNameFixed(n) == 0

\* format!("sst{:03}{}", self.tables.len(), stem): one name per length
TableName(n) == n

\* what a call gave back: Ok / Some / None, an Err from the step `at`, or a panic
Ret(op, arg, kind, val) ==
    [op |-> op, arg |-> arg, kind |-> kind, val |-> val, at |-> "none"]
Err(k, at) == [op |-> "put", arg |-> k, kind |-> "err", val |-> 0, at |-> at]

Init ==
    /\ status = "open"
    /\ memtable = EmptyMap
    /\ tables = << >>
    /\ walFile = << >>
    /\ manifestFile = NoFile
    /\ sstFiles = EmptyMap
    /\ disk = [wal |-> << >>, manifest |-> NoFile, sst |-> EmptyMap]
    /\ pc = "idle"
    /\ key = 0 /\ value = 0
    /\ dump = << >> /\ name = 0
    /\ lastRet = Ret("new", 0, "ok", 0)
    /\ acked = [k \in Keys |-> 0]
    /\ issued = {}
    /\ lastFlush = [name |-> -1, dump |-> << >>]
    /\ unflushed = EmptyMap
    /\ pre = [memtable |-> EmptyMap, tables |-> << >>, wal |-> << >>]
    /\ maybe = [k \in Keys |-> {}]
    /\ putCount = [k \in Keys |-> 0]
    /\ nput = 0 /\ nopen = 1 /\ nfault = 0

\* ------------------------------------------------------------------ put
\* Lsm::put, entry: the capacity test; on the flush branch the memtable is taken
\* (left empty) and the table is named after the length of the table list
PutBegin(k, v) ==
    /\ status = "open" /\ pc = "idle" /\ nput + nfault < MaxPuts
    /\ key' = k /\ value' = v
    /\ issued' = issued \cup {k}
    /\ pre' = [memtable |-> memtable, tables |-> tables, wal |-> walFile]
    /\ nput' = nput + 1
    /\ \/ /\ MapLen(memtable) >= max_size
          /\ dump' = IntoIter(memtable)
          /\ memtable' = EmptyMap
          /\ name' = TableName(Len(tables))
          /\ pc' = "sst"
       \/ /\ MapLen(memtable) < max_size
          /\ pc' = "append"
          /\ UNCHANGED << dump, memtable, name >>
    /\ lastRet' = Ret("put", k, "running", v)
    /\ UNCHANGED << status, tables, walFile, manifestFile, sstFiles, disk,
                    acked, maybe, putCount, lastFlush, unflushed, nopen, nfault >>

\* mutant: the log is truncated together with the table write, before the
\* manifest is persisted
SstWriteThenTruncate ==
    /\ status = "open" /\ pc = "sst"
    /\ sstFiles' = Insert(sstFiles, name, Overwrite(SstContent(name), EncodeSst(dump)))
    /\ tables' = Append(tables, name)
    /\ walFile' = << >>
    /\ pc' = "manifest"
    /\ UNCHANGED << status, memtable, manifestFile, disk, key, value, dump, name,
                    lastRet, acked, maybe, putCount, issued, pre, lastFlush, unflushed, nput, nopen,
                    nfault >>

\* the table file is opened (created if absent, not truncated), the payload is
\* written over it, and the name is pushed on self.tables
SstWrite ==
    /\ status = "open" /\ pc = "sst"
    /\ sstFiles' = Insert(sstFiles, name, Overwrite(SstContent(name), EncodeSst(dump)))
    /\ tables' = Append(tables, name)
    /\ pc' = "manifest"
    /\ UNCHANGED << status, memtable, walFile, manifestFile, disk, key, value, dump,
                    name, lastRet, acked, maybe, putCount, issued, pre, lastFlush, unflushed, nput, nopen, nfault >>

\* mutant: the manifest is persisted without the table of this flush
write_manifest_stale ==
    /\ status = "open" /\ pc = "manifest"
    /\ manifestFile' = EncodeManifest(SubSeq(tables, 1, Len(tables) - 1))
    /\ pc' = "truncate"
    /\ UNCHANGED << status, memtable, tables, walFile, sstFiles, disk, key, value,
                    dump, name, lastRet, acked, maybe, putCount, issued, pre,
                    lastFlush, unflushed, nput, nopen, nfault >>

\* Lsm::write_manifest: the manifest is truncated and rewritten in full
write_manifest ==
    /\ status = "open" /\ pc = "manifest"
    /\ manifestFile' = EncodeManifest(tables)
    /\ pc' = "truncate"
    /\ UNCHANGED << status, memtable, tables, walFile, sstFiles, disk, key, value,
                    dump, name, lastRet, acked, maybe, putCount, issued, pre, lastFlush, unflushed, nput, nopen, nfault >>

\* mutant: the flush ends without emptying the log
WalTruncateKeepsLog ==
    /\ status = "open" /\ pc = "truncate"
    /\ lastFlush' = [name |-> name, dump |-> dump]
    /\ unflushed' = EmptyMap
    /\ pc' = "append"
    /\ UNCHANGED << status, memtable, tables, walFile, manifestFile, sstFiles, disk,
                    key, value, dump, name, lastRet, acked, maybe, putCount, issued,
                    pre, nput, nopen, nfault >>

\* self.wal is reopened with truncate(true): the log becomes empty
WalTruncate ==
    /\ status = "open" /\ pc = "truncate"
    /\ walFile' = << >>
    /\ lastFlush' = [name |-> name, dump |-> dump]
    /\ unflushed' = EmptyMap
    /\ pc' = "append"
    /\ UNCHANGED << status, memtable, tables, manifestFile, sstFiles, disk, key,
                    value, dump, name, lastRet, acked, maybe, putCount, issued, pre, nput, nopen, nfault >>

\* self.wal.write(&payload) followed by self.wal.flush(): the record reaches the
\* file; File::flush does nothing, so nothing is forced to stable storage
WalAppend ==
    /\ status = "open" /\ pc = "append"
    /\ walFile' = walFile \o new_wal_entry(0, key, value)
    /\ pc' = "insert"
    /\ UNCHANGED << status, memtable, tables, manifestFile, sstFiles, disk, key,
                    value, dump, name, lastRet, acked, maybe, putCount, issued, pre, lastFlush, unflushed, nput,
                    nopen, nfault >>

\* self.memtable.insert(..) and Ok(bytes_written)
PutReturn ==
    /\ status = "open" /\ pc = "insert"
    /\ memtable' = Insert(memtable, key, value)
    /\ acked' = [acked EXCEPT ![key] = value]
    /\ maybe' = [maybe EXCEPT ![key] = {}]
    /\ putCount' = [putCount EXCEPT ![key] = @ + 1]
    /\ unflushed' = Insert(unflushed, key, value)
    /\ lastRet' = Ret("put", key, "ok", value)
    /\ pc' = "idle"
    /\ UNCHANGED << status, tables, walFile, manifestFile, sstFiles, disk, key,
                    value, dump, name, issued, pre, lastFlush, nput, nopen, nfault >>

\* ------------------------------------------------------------------ get
\* a call of Lsm::get; an unwrap that fails ends the process
DoGet(k) ==
    /\ status = "open" /\ pc = "idle"
    /\ LET r == Get(k)
       IN  /\ lastRet' = Ret("get", k, r.kind, r.val)
           /\ status' = IF r.kind = "panic" THEN "down" ELSE status
           /\ memtable' = IF r.kind = "panic" THEN EmptyMap ELSE memtable
           /\ tables' = IF r.kind = "panic" THEN << >> ELSE tables
    /\ UNCHANGED << walFile, manifestFile, sstFiles, disk, pc, key, value, dump,
                    name, acked, maybe, putCount, issued, pre, lastFlush, unflushed, nput, nopen, nfault >>

\* ------------------------------------------------------------------ restart
\* the handle is dropped with no put running (there is no shutdown code); the
\* files stay as they are
Drop ==
    /\ status = "open" /\ pc = "idle" /\ nopen < MaxOpens
    /\ status' = "down"
    /\ memtable' = EmptyMap
    /\ tables' = << >>
    /\ lastRet' = Ret("drop", 0, "ok", 0)
    /\ UNCHANGED << walFile, manifestFile, sstFiles, disk, pc, key, value, dump,
                    name, acked, maybe, putCount, issued, pre, lastFlush, unflushed, nput, nopen, nfault >>

\* Lsm::new: the manifest is read (an undecodable manifest panics), the log is
\* replayed, and the log is opened for append (created if absent)
New ==
    /\ status = "down" /\ nopen < MaxOpens
    /\ nopen' = nopen + 1
    /\ LET manifest_content ==
               IF manifestFile = NoFile THEN [ok |-> TRUE, names |-> << >>]
               ELSE DecodeManifest(manifestFile)
       IN  IF manifest_content.ok
           THEN /\ memtable' = try_log_recovery(walFile)
                /\ tables' = manifest_content.names
                /\ walFile' = IF walFile = NoFile THEN << >> ELSE walFile
                /\ status' = "open"
                /\ lastRet' = Ret("new", 0, "ok", 0)
           ELSE /\ lastRet' = Ret("new", 0, "panic", 0)
                /\ UNCHANGED << memtable, tables, walFile, status >>
    /\ UNCHANGED << manifestFile, sstFiles, disk, pc, key, value, dump, name,
                    acked, maybe, putCount, issued, pre, lastFlush, unflushed, nput, nfault >>

Next ==
    \/ \E k \in Keys, v \in Values : PutBegin(k, v)
    \/ SstWrite
    \/ write_manifest
    \/ WalTruncate
    \/ WalAppend
    \/ PutReturn
    \/ \E k \in Keys : DoGet(k)
    \/ Drop
    \/ New

Spec == Init /\ [][Next]_vars

\* ------------------------------------------------------------------ crash inside put
\* the process ends between two steps of a put; the files stay as the steps
\* taken so far left them, and the put never returns
CrashMid ==
    /\ status = "open" /\ pc # "idle" /\ nopen < MaxOpens
    /\ status' = "down"
    /\ memtable' = EmptyMap
    /\ tables' = << >>
    /\ maybe' = IF pc = "insert" THEN [maybe EXCEPT ![key] = @ \cup {value}] ELSE maybe
    /\ lastRet' = Ret("drop", key, "crash", 0)
    /\ pc' = "idle"
    /\ UNCHANGED << walFile, manifestFile, sstFiles, disk, key, value, dump, name,
                    acked, putCount, issued, pre, lastFlush, unflushed, nput, nopen,
                    nfault >>

NextCrash ==
    \/ Next
    \/ CrashMid

SpecCrash == Init /\ [][NextCrash]_vars

\* ------------------------------------------------------------------ failures
\* put's flush branch, the table file: open fails (the file is untouched) or
\* write_all fails part-way; `?` returns the error with the memtable already
\* taken and the name not pushed
SstWriteFail ==
    /\ status = "open" /\ pc = "sst" /\ nfault < MaxFaults
    /\ \/ UNCHANGED sstFiles
       \/ \E j \in 0..(Len(EncodeSst(dump)) - 1) :
              sstFiles' = Insert(sstFiles, name,
                                 Overwrite(SstContent(name), SubSeq(EncodeSst(dump), 1, j)))
    /\ lastRet' = Err(key, "table")
    /\ pc' = "idle"
    /\ nfault' = nfault + 1
    /\ UNCHANGED << status, memtable, tables, walFile, manifestFile, disk, key, value,
                    dump, name, acked, maybe, putCount, issued, pre, lastFlush, unflushed, nput, nopen >>

\* write_manifest: the file is truncated, write_all fails part-way, and the
\* error is returned through put; the name stays pushed on self.tables
WriteManifestFail ==
    /\ status = "open" /\ pc = "manifest" /\ nfault < MaxFaults
    /\ \E j \in 0..(Len(EncodeManifest(tables)) - 1) :
           manifestFile' = SubSeq(EncodeManifest(tables), 1, j)
    /\ lastRet' = Err(key, "manifest")
    /\ pc' = "idle"
    /\ nfault' = nfault + 1
    /\ UNCHANGED << status, memtable, tables, walFile, sstFiles, disk, key, value,
                    dump, name, acked, maybe, putCount, issued, pre, lastFlush, unflushed, nput, nopen >>

\* write_manifest: the open of the manifest fails and its unwrap panics
WriteManifestPanic ==
    /\ status = "open" /\ pc = "manifest" /\ nfault < MaxFaults
    /\ status' = "down"
    /\ memtable' = EmptyMap
    /\ tables' = << >>
    /\ lastRet' = Ret("put", key, "panic", 0)
    /\ pc' = "idle"
    /\ nfault' = nfault + 1
    /\ UNCHANGED << walFile, manifestFile, sstFiles, disk, key, value, dump, name,
                    acked, maybe, putCount, issued, pre, lastFlush, unflushed, nput, nopen >>

\* the reopening of ".log" with truncate fails: the error is returned, the log
\* keeps its content
WalTruncateFail ==
    /\ status = "open" /\ pc = "truncate" /\ nfault < MaxFaults
    /\ lastRet' = Err(key, "truncate")
    /\ pc' = "idle"
    /\ nfault' = nfault + 1
    /\ UNCHANGED << status, memtable, tables, walFile, manifestFile, sstFiles, disk,
                    key, value, dump, name, acked, maybe, putCount, issued, pre, lastFlush, unflushed,
                    nput, nopen >>

\* self.wal.write fails: the error is returned and nothing is inserted
WalAppendFail ==
    /\ status = "open" /\ pc = "append" /\ nfault < MaxFaults
    /\ lastRet' = Err(key, "append")
    /\ pc' = "idle"
    /\ nfault' = nfault + 1
    /\ UNCHANGED << status, memtable, tables, walFile, manifestFile, sstFiles, disk,
                    key, value, dump, name, acked, maybe, putCount, issued, pre, lastFlush, unflushed,
                    nput, nopen >>

\* self.wal.write (not write_all) writes only the first j cells of the record
\* and reports Ok(j): put goes on to insert and to return Ok
WalAppendShort ==
    /\ status = "open" /\ pc = "append" /\ nfault < MaxFaults
    /\ \E j \in 1..3 : walFile' = walFile \o SubSeq(new_wal_entry(0, key, value), 1, j)
    /\ pc' = "insert"
    /\ nfault' = nfault + 1
    /\ UNCHANGED << status, memtable, tables, manifestFile, sstFiles, disk, key,
                    value, dump, name, lastRet, acked, maybe, putCount, issued, pre, lastFlush, unflushed,
                    nput, nopen >>

\* ------------------------------------------------------------------ damage at rest
\* while the engine is down the log loses the end of its last record
TearWal ==
    /\ status = "down" /\ walFile # NoFile /\ nfault < MaxFaults
    /\ \E j \in 1..3 :
           /\ Len(walFile) >= 4
           /\ walFile' = SubSeq(walFile, 1, Len(walFile) - j)
    /\ nfault' = nfault + 1
    /\ UNCHANGED << status, memtable, tables, manifestFile, sstFiles, disk, pc, key,
                    value, dump, name, lastRet, acked, maybe, putCount, issued, pre, lastFlush, unflushed,
                    nput, nopen >>

\* while the engine is down one cell of the log changes
CorruptWal ==
    /\ status = "down" /\ walFile # NoFile /\ nfault < MaxFaults
    /\ \E i \in 1..Len(walFile), c \in Cells :
           /\ c # walFile[i]
           /\ walFile' = [walFile EXCEPT ![i] = c]
    /\ nfault' = nfault + 1
    /\ UNCHANGED << status, memtable, tables, manifestFile, sstFiles, disk, pc, key,
                    value, dump, name, lastRet, acked, maybe, putCount, issued, pre, lastFlush, unflushed,
                    nput, nopen >>

\* an SSTable file is removed, or cut so that it no longer decodes (nothing
\* reads the tables while the engine is down, so damage done then shows as
\* damage done right after the next open)
DamageSst ==
    /\ status = "open" /\ pc = "idle" /\ nfault < MaxFaults
    /\ \E n \in DOMAIN sstFiles :
           \/ sstFiles' = Remove(sstFiles, n)
           \/ /\ Len(sstFiles[n]) >= 2
              /\ sstFiles' = Insert(sstFiles, n, SubSeq(sstFiles[n], 1, Len(sstFiles[n]) - 1))
    /\ nfault' = nfault + 1
    /\ UNCHANGED << status, memtable, tables, walFile, manifestFile, disk, pc, key,
                    value, dump, name, lastRet, acked, maybe, putCount, issued, pre, lastFlush, unflushed,
                    nput, nopen >>

NextFault ==
    \/ Next
    \/ SstWriteFail
    \/ WriteManifestFail
    \/ WriteManifestPanic
    \/ WalTruncateFail
    \/ WalAppendFail
    \/ WalAppendShort
    \/ TearWal
    \/ CorruptWal
    \/ DamageSst

SpecFault == Init /\ [][NextFault]_vars

\* ------------------------------------------------------------------ stable storage
\* the operating system writes the cached content of the files back
OsWriteback ==
    /\ nfault < MaxFaults
    /\ disk # [wal |-> walFile, manifest |-> manifestFile, sst |-> sstFiles]
    /\ disk' = [wal |-> walFile, manifest |-> manifestFile, sst |-> sstFiles]
    /\ nfault' = nfault + 1
    /\ UNCHANGED << status, memtable, tables, walFile, manifestFile, sstFiles, pc,
                    key, value, dump, name, lastRet, acked, maybe, putCount, issued, pre, lastFlush,
                    unflushed, nput, nopen >>

\* power is lost: the process is gone and the files are what stable storage holds
PowerLoss ==
    /\ status = "open" /\ nopen < MaxOpens
    /\ status' = "down"
    /\ memtable' = EmptyMap
    /\ tables' = << >>
    /\ walFile' = disk.wal
    /\ manifestFile' = disk.manifest
    /\ sstFiles' = disk.sst
    /\ pc' = "idle"
    /\ lastRet' = Ret("powerloss", 0, "ok", 0)
    /\ UNCHANGED << disk, key, value, dump, name, acked, maybe, putCount, issued, pre, lastFlush,
                    unflushed, nput, nopen, nfault >>

NextPower ==
    \/ Next
    \/ OsWriteback
    \/ PowerLoss

SpecPower == Init /\ [][NextPower]_vars

\* ------------------------------------------------------------------ claims
Range(f) == {f[i] : i \in DOMAIN f}
Ready == status = "open" /\ pc = "idle"
ManifestNames == IF manifestFile = NoFile THEN {} ELSE Range(DecodeManifest(manifestFile).names)
TableHolds(n, k) ==
    /\ n \in DOMAIN sstFiles
    /\ DecodeSst(sstFiles[n]).ok
    /\ \E e \in Range(DecodeSst(sstFiles[n]).entries) : e[1] = k

\* C1: with no I/O failure, whenever no put is running, get(k) returns Some(v)
\* for the value v of the most recent put of k that returned Ok, for every key
\* that was put; in particular right after the put, and when an older value of
\* k sits in an SSTable while the newer one is in the memtable.
C1_LastWriteWins ==
    Ready => \A k \in Keys : acked[k] # 0 => Get(k) = Some(acked[k])

\* a put has just returned for a key whose older, different value is in a table
C1_Witness ==
    /\ Ready /\ lastRet.op = "put" /\ lastRet.kind = "ok"
    /\ lastRet.arg \in DOMAIN memtable
    /\ GetFromTables(lastRet.arg).kind = "some"
    /\ GetFromTables(lastRet.arg).val # memtable[lastRet.arg]

\* C2: after a flush, every key of the drained memtable that the memtable no
\* longer holds is returned by get with its flushed value, the table list and
\* the manifest both hold the name of the new SSTable, and every key ever put
\* successfully is retrievable.
C2_FlushDurability ==
    (Ready /\ lastFlush.name # -1) =>
        /\ \A e \in Range(lastFlush.dump) :
               e[1] \notin DOMAIN memtable => Get(e[1]) = Some(e[2])
        /\ lastFlush.name \in Range(tables)
        /\ lastFlush.name \in ManifestNames
        /\ \A k \in Keys : acked[k] # 0 => Get(k).kind = "some"

\* two flushes have completed and a key of the last one is served by its table
C2_Witness ==
    /\ Ready /\ Len(tables) >= 2 /\ lastFlush.name = tables[Len(tables)]
    /\ \E e \in Range(lastFlush.dump) : e[1] \notin DOMAIN memtable
    /\ \A k \in Keys : acked[k] # 0

\* C3: after the handle is dropped with no put running and the engine is opened
\* again on the same files, the memtable holds every key put successfully since
\* the last flush with the value of its most recent put, and the keys flushed
\* earlier are still returned by get.
C3_CrashRecovery ==
    (Ready /\ lastRet.op = "new" /\ nopen > 1) =>
        /\ \A k \in DOMAIN unflushed :
               k \in DOMAIN memtable /\ memtable[k] = unflushed[k]
        /\ \A k \in Keys : acked[k] # 0 => Get(k) = Some(acked[k])

\* a reopened engine with replayed keys in the memtable and a flushed key that
\* only a table holds
C3_Witness ==
    /\ Ready /\ lastRet.op = "new" /\ nopen > 1
    /\ DOMAIN unflushed # {}
    /\ \E k \in Keys : acked[k] # 0 /\ k \notin DOMAIN memtable

\* C5: get returns None for every key that put was never called with, after
\* any puts of other keys, flushes and reopens.
C5_Absence ==
    Ready => \A k \in Keys \ issued : Get(k) = None

\* a get of a key never put has returned None on a reopened engine that holds
\* other keys in the memtable and in a table
C5_Witness ==
    /\ Ready /\ nopen > 1 /\ Len(tables) >= 1 /\ DOMAIN memtable # {}
    /\ lastRet.op = "get" /\ lastRet.arg \notin issued /\ lastRet.kind = "none"

\* ------------------------------------------------------------------ claims on failures
\* the number of whole, well-formed records (decodable, checksum matching) at
\* the start of a log
RECURSIVE GoodRecords(_)
GoodRecords(bytes) ==
    IF /\ Len(bytes) >= 4
       /\ bytes[2] \in {0, 1}
       /\ bytes[1] = compute_crc(bytes[2], bytes[3], bytes[4])
    THEN 1 + GoodRecords(SubSeq(bytes, 5, Len(bytes)))
    ELSE 0

\* the map the first n records of a log describe
RECURSIVE ApplyRecords(_, _, _)
ApplyRecords(bytes, n, m) ==
    IF n = 0 THEN m
    ELSE ApplyRecords(SubSeq(bytes, 5, Len(bytes)), n - 1,
                      IF bytes[2] = 1 THEN Remove(m, bytes[3])
                      ELSE Insert(m, bytes[3], bytes[4]))

PrefixMap(bytes) == ApplyRecords(bytes, GoodRecords(bytes), EmptyMap)

\* the log is a run of good records followed by one torn or corrupted record
TornTail(bytes) ==
    /\ Len(bytes) > 4 * GoodRecords(bytes)
    /\ Len(bytes) <= 4 * GoodRecords(bytes) + 4

Reopened == Ready /\ lastRet.op = "new" /\ lastRet.kind = "ok" /\ nopen > 1

\* C4 (as claimed): when the table write or the manifest persist of a flush
\* fails, put returns the error and the memtable, the table list and the log
\* are what they were before the put, and every key put successfully before is
\* still returned by get.
C4_FailedFlushLeavesState ==
    (Ready /\ lastRet.op = "put" /\ lastRet.kind = "err"
           /\ lastRet.at \in {"table", "manifest"}) =>
        /\ memtable = pre.memtable
        /\ tables = pre.tables
        /\ walFile = pre.wal
        /\ \A k \in Keys : acked[k] # 0 => Get(k) = Some(acked[k])

\* C6: when the log is good records followed by one torn or corrupted record,
\* opening the engine does not panic, the memtable is exactly the map of the
\* records before that record, and get returns those entries.
C6_TornTailTolerance ==
    /\ (lastRet.op = "new" /\ lastRet.kind = "panic") =>
           (manifestFile # NoFile /\ ~DecodeManifest(manifestFile).ok)
    /\ (Reopened /\ TornTail(walFile)) =>
           /\ memtable = PrefixMap(walFile)
           /\ \A k \in DOMAIN PrefixMap(walFile) : Get(k) = Some(PrefixMap(walFile)[k])

\* an engine reopened on a log whose last record is torn, with a record before it
C6_Witness ==
    /\ Reopened /\ TornTail(walFile) /\ GoodRecords(walFile) >= 1
    /\ DOMAIN memtable # {}

\* C7 (as claimed): a get that reads a missing or undecodable SSTable returns
\* an error to its caller and the engine stays usable.
C7_GetReportsTableFailure ==
    lastRet.op = "get" => (lastRet.kind \in {"some", "none", "err"} /\ status = "open")

\* C8 (as claimed): when put has returned Ok, the content of the log on stable
\* storage holds the complete record of that put.
C8_DurableBeforeAck ==
    (Ready /\ lastRet.op = "put" /\ lastRet.kind = "ok") =>
        \E i \in 1..Len(disk.wal) :
            SubSeq(disk.wal, i, i + 3) = new_wal_entry(0, lastRet.arg, lastRet.val)

\* C9 (as claimed): replay stops at the first record that does not decode or
\* whose checksum differs, so the memtable of a reopened engine is the map of
\* the records before the first bad record.
C9_ReplayStopsAtFirstBad ==
    Reopened => memtable = PrefixMap(walFile)

\* a put that flushed is past the truncation of the log
PastTruncate ==
    status = "open" /\ pc \in {"append", "insert"} /\ MapLen(pre.memtable) >= max_size

\* the manifest file lists the table of this flush and the table file holds
\* the entries drained from the memtable
FlushPersisted ==
    /\ name \in ManifestNames
    /\ name \in DOMAIN sstFiles
    /\ DecodeSst(sstFiles[name]).ok
    /\ DecodeSst(sstFiles[name]).entries = dump
    /\ dump = IntoIter(pre.memtable)

\* C10: a step of the open engine that shortens the log is the truncate step
\* of put and is taken only when the table write and the manifest persist of
\* the same flush are done; and in every state of a put past its truncation
\* of the log the persisted manifest lists a table holding the drained entries.
C10_WalResetOrdering ==
    /\ [](PastTruncate => FlushPersisted)
    /\ [][(status = "open" /\ status' = "open" /\ Len(walFile') < Len(walFile)) =>
             (pc = "truncate" /\ FlushPersisted)]_vars

\* the log has just been truncated in a put that follows an earlier failure
C10_Witness ==
    /\ status = "open" /\ pc = "append" /\ lastRet.kind = "running"
    /\ walFile = << >> /\ Len(pre.wal) > 0
    /\ lastFlush.name = name /\ name \in ManifestNames
    /\ nfault > 0

C12_MemtableWithinCapacity ==
    Ready => MapLen(memtable) <= max_size

\* ------------------------------------------------------------------ C13
\* the log holds, at some offset, the whole record of a put of k with value v
HasRecord(w, k, v) ==
    \E i \in 0..Len(w) :
        /\ i + 4 <= Len(w)
        /\ SubSeq(w, i + 1, i + 4) = new_wal_entry(0, k, v)

\* C13 (as claimed): in every reachable state each (key, value) held in the
\* memtable has a matching record in the log, because put appends the record
\* before it inserts and returns the error without inserting when the append
\* fails.
C13_MemtableBackedByWal ==
    status = "open" =>
        \A k \in DOMAIN memtable : HasRecord(walFile, k, memtable[k])

\* ------------------------------------------------------------------ C14
\* the last put returned Ok and had found the memtable full
FlushedPutReturned ==
    /\ Ready /\ lastRet.op = "put" /\ lastRet.kind = "ok"
    /\ MapLen(pre.memtable) >= max_size

\* C14: with no I/O failure, whenever no put is running, replaying the log
\* from its start yields exactly the memtable; and right after a put that
\* flushed the log holds exactly the one record of that put.
C14_WalReplaysToMemtable ==
    /\ Ready => try_log_recovery(walFile) = memtable
    /\ FlushedPutReturned => walFile = new_wal_entry(0, key, value)

\* a second flushing put has returned: one record in the log, one entry in
\* the memtable, two tables in the catalog
C14_Witness ==
    /\ FlushedPutReturned
    /\ Len(tables) >= 2
    /\ Len(walFile) = 4
    /\ MapLen(memtable) = 1
    /\ Len(pre.wal) > 4

\* ------------------------------------------------------------------ C15
\* the positions in the table list of the tables whose file holds key k
HoldersOf(k) == {i \in 1..Len(tables) : TableHolds(tables[i], k)}

\* the value stored with key k in the file of table n
ValueIn(n, k) ==
    LET es == DecodeSst(sstFiles[n]).entries
    IN  (CHOOSE e \in Range(es) : e[1] = k)[2]

Newest(S) == CHOOSE i \in S : \A j \in S : j <= i

\* C15: when a key is absent from the memtable and present in several tables
\* of the catalog, get returns the value stored in the one latest in the
\* table list, after any sequence of puts, flushes and reopens.
C15_NewestTableWins ==
    Ready =>
        \A k \in Keys :
            (k \notin DOMAIN memtable /\ Cardinality(HoldersOf(k)) > 1) =>
                Get(k) = Some(ValueIn(tables[Newest(HoldersOf(k))], k))

\* a key absent from the memtable sits in two catalogued tables with
\* different values
C15_Witness ==
    /\ Ready
    /\ \E k \in Keys :
           /\ k \notin DOMAIN memtable
           /\ Cardinality(HoldersOf(k)) > 1
           /\ \E i \in HoldersOf(k) :
                  ValueIn(tables[i], k) # ValueIn(tables[Newest(HoldersOf(k))], k)

\* ------------------------------------------------------------------ C16
\* C16 (as claimed): within a single engine lifetime (one open, no restart) no
\* sequence of puts makes the same key appear in two catalogued tables.
C16_OneTablePerKeyInLifetime ==
    (status = "open" /\ nopen = 1) =>
        \A k \in Keys : Cardinality(HoldersOf(k)) <= 1

\* C16 (amended): a key is stored in more than one catalogued table only if
\* it was flushed more than once, which happens within a single engine
\* lifetime when the key is put again after a flush drained it; with no
\* failure and no crash inside a put, the number of catalogued tables holding
\* a key never exceeds the number of puts of that key that returned Ok.
C16_TablesPerKeyWithinPuts ==
    status = "open" =>
        \A k \in Keys : Cardinality(HoldersOf(k)) <= putCount[k]

\* in the first lifetime a key put twice sits in two catalogued tables
C16_Witness ==
    /\ Ready /\ nopen = 1
    /\ \E k \in Keys : Cardinality(HoldersOf(k)) = 2 /\ putCount[k] = 2

\* ------------------------------------------------------------------ C17
\* C17 (as claimed): every flush writes its table to an identifier whose file
\* no earlier flush has written, and no step changes or removes a table file
\* that exists, for any sequence of puts, crashes and reopens.
C17_TableFilesWrittenOnce ==
    [][/\ (pc = "sst" /\ pc' = "manifest") => name \notin DOMAIN sstFiles
       /\ \A n \in DOMAIN sstFiles :
              n \in DOMAIN sstFiles' /\ sstFiles'[n] = sstFiles[n]]_vars

\* ------------------------------------------------------------------ C18
\* C18 (as claimed): at every engine open, also one that follows a crash at
\* any step of an earlier flush, the identifiers listed in the manifest are
\* exactly the table files present on disk.
C18_ManifestMatchesFiles ==
    Reopened => ManifestNames = DOMAIN sstFiles

\* ------------------------------------------------------------------ C19
\* the keys of a sequence of pairs are strictly ascending
StrictlyAscending(es) ==
    \A i \in 1..(Len(es) - 1) : es[i][1] < es[i + 1][1]

\* C19: every catalogued table file the engine wrote holds its pairs in
\* strictly ascending key order with no duplicate key, whether the flushed
\* memtable was built by puts or by replay of the log, and the binary search
\* of get finds a key in the table exactly when the table contains it.
C19_TablesSortedAndSearchable ==
    status = "open" =>
        \A i \in 1..Len(tables) :
            (tables[i] \in DOMAIN sstFiles /\ DecodeSst(sstFiles[tables[i]]).ok) =>
                LET es == DecodeSst(sstFiles[tables[i]]).entries
                IN  /\ StrictlyAscending(es)
                    /\ \A k \in Keys :
                           LET index == BinarySearch(es, k, 0, Len(es))
                           IN  /\ (index # 0) <=> (\E e \in Range(es) : e[1] = k)
                               /\ index # 0 => es[index][1] = k

\* the table of a flush has just been written from a memtable that replay of
\* the log rebuilt at a reopen
C19_Witness ==
    /\ status = "open" /\ pc = "manifest" /\ nopen > 1 /\ nput = 3
    /\ Len(dump) = 2 /\ dump = IntoIter(pre.memtable)
    /\ name \in DOMAIN sstFiles
    /\ DecodeSst(sstFiles[name]).entries = dump
    /\ dump[1][1] < dump[2][1]

====
